---------------------------- MODULE Spec2Model ----------------------------
(***************************************************************************)
(* A model of bioino's GFF reader (src/bioino/gff.py): the streaming       *)
(* parser GffFile._from_file / GffFile.from_file, the consuming operations *)
(* of a GffFile, and the coordinate lookup table built by                  *)
(* GffFile._lookup_table and GffFile._gapfill_table.                       *)
(*                                                                         *)
(* Representation.  A Python str is a sequence of atoms; an atom is either *)
(* one character that the code treats specially (tab, space, '#', '=',     *)
(* ';', a digit) or a run of other characters written as one TLA+ string   *)
(* ("gene").  A Python dict is a sequence of <<key, value>> pairs in       *)
(* insertion order.  A GffLine object is a record of its columns and of    *)
(* the identity of its attributes dict: dict_id = k > 0 names the dict     *)
(* object created when input line k was parsed, whose current content is   *)
(* dicts[k]; dict_id = 0 is a dict no other object refers to, held in the  *)
(* record itself.  The lookup table is held in two parts: lookup_table is  *)
(* the dict as the loop over the features leaves it, and trailing is the   *)
(* run of objects that the loop after it appends, one to each of its 1000  *)
(* coordinates; TableGet reads the dict the code returns.                   *)
(***************************************************************************)
EXTENDS Integers, Sequences, FiniteSets, TLC

VARIABLES
    \* GffFile._lookup_table, one step per iteration of its loop
    stream,        \* the GffLine objects self.lines yields, as parsed
    n,             \* how many of them the loop has pulled
    dicts,         \* dicts[k]: content of the attributes dict of line k
    lookup_table,  \* coordinate -> list of GffLine objects
    trailing,      \* <<>>, or <<the run the trailing loop has appended>>
    last_feature,  \* <<>> for None, <<object>> otherwise
    gap_table,     \* what the last call of _gapfill_table returned
    pc,            \* where the program is
    error,         \* the exception that ended the last operation, if any
    \* GffFile.from_file and the operations of the object it returns
    file,          \* the text source: a sequence of lines
    file_parser,   \* the suspended _from_file generator
    metadata,      \* GffFile.metadata
    lines,         \* GffFile.lines: the generator, or a tuple after to_csv
    lookup,        \* GffFile.lookup
    op,            \* the last operation called on the object
    delivered,     \* the records that operation received from self.lines
    out            \* what that operation wrote to its output file

vars == <<stream, n, dicts, lookup_table, trailing, last_feature, gap_table,
          pc, error,
          file, file_parser, metadata, lines, lookup, op, delivered, out>>

lookup_vars ==
    <<stream, n, dicts, lookup_table, trailing, last_feature, gap_table>>
parse_vars ==
    <<file, file_parser, metadata, lines, lookup, op, delivered, out>>

----------------------------------------------------------------------------
(* Bounds of the model *)

\* largest start or end coordinate of the generated features
MaxCoord == 4
\* longest generated record stream
MaxLines == 2
\* longest generated text file, in lines
MaxFileLines == 3

----------------------------------------------------------------------------
(* Strings, dicts, exceptions *)

S(x) == <<x>>

TAB == "\t"
SPACE == " "
HASH == "#"

NAME == S("Name")
PARENT == S("Parent")
OFFSET == S("offset")
LOCUS_TAG == S("locus_tag")

DictHas(d, k) == \E j \in 1..Len(d) : d[j][1] = k

DictGet(d, k) == d[CHOOSE j \in 1..Len(d) : d[j][1] = k][2]

\* d[k] = v, and d.update({k: v}): a present key keeps its place
DictSet(d, k, v) ==
    IF DictHas(d, k)
    THEN [j \in 1..Len(d) |-> IF d[j][1] = k THEN <<k, v>> ELSE d[j]]
    ELSE Append(d, <<k, v>>)

\* an exception: its class and the text its message quotes
NoError == [type |-> "", text |-> <<>>]

Raise(type, text) == [type |-> type, text |-> text]

Abs(x) == IF x < 0 THEN -x ELSE x

\* max(s) of a finite set of integers
SetMax(s) == CHOOSE x \in s : (x + 1) \notin s /\ \A y \in s : y <= x

----------------------------------------------------------------------------
(* GffLine objects *)

GFF_FEATURE_BLOCKLIST == {S("region"), S("repeat_region")}

\* an object whose attributes dict is shared: the dict of input line k
SharedLine(columns, k) == [columns |-> columns, dict_id |-> k, attributes |-> <<>>]

\* an object with a dict of its own
OwnLine(columns, attributes) ==
    [columns |-> columns, dict_id |-> 0, attributes |-> attributes]

\* obj.attributes
Attributes(obj, heap) ==
    IF obj.dict_id = 0 THEN obj.attributes ELSE heap[obj.dict_id]

\* GffLine.copy: dataclasses.replace(self) passes the same columns and the
\* same attributes dict to the new object
copy(obj) == obj

\* the condition of the loop of _lookup_table
EligibleNoBlocklist(columns, attributes) ==
    /\ DictHas(attributes, NAME)
    /\ ~DictHas(attributes, PARENT)

EligibleNoNameTest(columns, attributes) ==
    /\ columns.feature \notin GFF_FEATURE_BLOCKLIST
    /\ ~DictHas(attributes, PARENT)

Eligible(columns, attributes) ==
    /\ columns.feature \notin GFF_FEATURE_BLOCKLIST
    /\ DictHas(attributes, NAME)
    /\ ~DictHas(attributes, PARENT)

----------------------------------------------------------------------------
(* GffFile._gapfill_table *)

GapSpan(last_end, this_start) == (this_start - 1) - (last_end + 1)

GapMidpointUp(last_end, this_start) ==
    last_end + 1 + ((GapSpan(last_end, this_start) + 1) \div 2)

GapMidpoint(last_end, this_start) ==
    last_end + 1 + (GapSpan(last_end, this_start) \div 2)

PreMidRangeShort(last_end, gap_midpoint) == (last_end + 2)..gap_midpoint

\* range(last_end + 1, gap_midpoint + 1)
PreMidRange(last_end, gap_midpoint) == (last_end + 1)..gap_midpoint

\* range(gap_midpoint + 1, this_start)
PostMidRange(gap_midpoint, this_start) == (gap_midpoint + 1)..(this_start - 1)

PreMidOffsetStart(columns) ==
    IF columns.strand = S("+") THEN columns.start ELSE columns.end

PreMidSign(columns) == IF columns.strand = S("+") THEN 1 ELSE -1

PreMidPrefix(columns, has_last) ==
    IF columns.strand = S("+")
    THEN (IF has_last THEN S("_down-") ELSE S("_up-"))
    ELSE (IF has_last THEN S("_up-") ELSE S("_down-"))

PostMidOffsetStart(columns) ==
    IF columns.strand = S("+") THEN columns.start ELSE columns.end

PostMidSignSame(columns) == IF columns.strand = S("+") THEN 1 ELSE -1

PostMidSign(columns) == IF columns.strand = S("+") THEN -1 ELSE 1

PostMidPrefix(columns) ==
    IF columns.strand = S("+") THEN S("_up-") ELSE S("_down-")

\* attr0['Name'] and attr1['Name'] are read without a test
GapfillRaises(gff_line, last, heap) ==
    LET intergenic0 == IF last = <<>> THEN copy(gff_line) ELSE copy(last[1])
    IN  \/ ~DictHas(Attributes(intergenic0, heap), NAME)
        \/ ~DictHas(Attributes(gff_line, heap), NAME)

gapfill_table(gff_line, last, heap) ==
    LET this_start == gff_line.columns.start
        last_end == IF last = <<>> THEN 0 ELSE last[1].columns.end
        intergenic0 == IF last = <<>> THEN copy(gff_line) ELSE copy(last[1])
        intergenic1 == copy(gff_line)
        gap_midpoint == GapMidpoint(last_end, this_start)
        a0 == Attributes(intergenic0, heap)
        attr0 == DictSet(a0, LOCUS_TAG,
                         PreMidPrefix(intergenic0.columns, last # <<>>)
                             \o DictGet(a0, NAME))
        a1 == Attributes(intergenic1, heap)
        attr1 == DictSet(a1, LOCUS_TAG,
                         PostMidPrefix(intergenic1.columns) \o DictGet(a1, NAME))
        pre == PreMidRange(last_end, gap_midpoint)
        post == PostMidRange(gap_midpoint, this_start)
    IN  [i \in pre \cup post |->
            IF i \in pre
            THEN <<OwnLine(intergenic0.columns,
                           DictSet(attr0, OFFSET,
                                   (i - PreMidOffsetStart(intergenic0.columns))
                                       * PreMidSign(intergenic0.columns)))>>
            ELSE <<OwnLine(intergenic1.columns,
                           DictSet(attr1, OFFSET,
                                   (i - PostMidOffsetStart(intergenic1.columns))
                                       * PostMidSign(intergenic1.columns)))>>]

----------------------------------------------------------------------------
(* GffFile._lookup_table *)

\* lookup_table.update(gap_table): the lists of gap_table replace those
\* stored under the same keys
TableUpdate(table, gap) ==
    [j \in DOMAIN table \cup DOMAIN gap |->
        IF j \in DOMAIN gap THEN gap[j] ELSE table[j]]

BodyOffsetStart(columns) ==
    IF columns.strand = S("+") THEN columns.start ELSE columns.end

\* range(gff_line.columns.start, gff_line.columns.end + 1)
BodyRange(columns) == columns.start..columns.end

\* the values of `offset = abs(i - offset_start)` in the order of the loop
BodyOffsets(columns) ==
    [j \in 1..(columns.end - columns.start + 1) |->
        Abs((columns.start + j - 1) - BodyOffsetStart(columns))]

\* d[k] = v for each v of vs in turn, all into the dict d: the key keeps the
\* place the first assignment gave it and the last value remains
AssignEach(d, k, vs) == IF vs = <<>> THEN d ELSE DictSet(d, k, vs[Len(vs)])

\* this_gff_line.attributes['offset'] = offset in every iteration:
\* this_gff_line is gff_line.copy(), whose attributes dict is that of
\* gff_line, so all iterations assign into the one dict d
BodyDict(d, columns) == AssignEach(d, OFFSET, BodyOffsets(columns))

\* lookup_table[i].append(this_gff_line) for the feature's own coordinates
BodyTable(table, gff_line) ==
    LET r == BodyRange(gff_line.columns)
    IN  [i \in DOMAIN table \cup r |->
            (IF i \in DOMAIN table THEN table[i] ELSE <<>>)
            \o (IF i \in r THEN <<copy(gff_line)>> ELSE <<>>)]

\* the loop over the feature's own coordinates
BodyLoop(table, heap, gff_line) ==
    [lookup_table |-> BodyTable(table, gff_line),
     dicts |-> [heap EXCEPT ![gff_line.dict_id] =
                   BodyDict(@, gff_line.columns)]]

TRAILING == 1000

\* range(last_feature.columns.end, last_feature.columns.end + 1000)
TrailingRange(end) == end..(end + TRAILING - 1)

LastOffsetStart(columns) ==
    IF columns.strand = S("+") THEN columns.start ELSE columns.end

LastSign(columns) == IF columns.strand = S("+") THEN 1 ELSE -1

LastPrefix(columns) ==
    IF columns.strand = S("+") THEN S("_down-") ELSE S("_up-")

\* attr = last_feature.attributes.copy(); attr.update(locus_tag=...)
TrailingAttr(last, heap) ==
    DictSet(Attributes(last, heap), LOCUS_TAG,
            LastPrefix(last.columns) \o DictGet(Attributes(last, heap), NAME))

\* the synthetic object stored under coordinate i after the loop
TrailingLine(columns, attr, i) ==
    OwnLine(columns,
            DictSet(attr, OFFSET,
                    (i - LastOffsetStart(columns)) * LastSign(columns)))

\* the loop `for i in range(end, end + 1000)`: every coordinate of the range
\* gets one object with these columns and attr plus its own offset
TrailingRun(last, heap) ==
    [columns |-> last.columns, attr |-> TrailingAttr(last, heap)]

TrailingKeys(run) ==
    IF run = <<>> THEN {} ELSE TrailingRange(run[1].columns.end)

\* the tuple the returned dict holds under key i
TableGet(table, run, i) ==
    (IF i \in DOMAIN table THEN table[i] ELSE <<>>)
    \o (IF i \in TrailingKeys(run)
        THEN <<TrailingLine(run[1].columns, run[1].attr, i)>>
        ELSE <<>>)

\* len(lookup_table[i]) on the defaultdict
TableLen(table, run, i) ==
    (IF i \in DOMAIN table THEN Len(table[i]) ELSE 0)
    + (IF i \in TrailingKeys(run) THEN 1 ELSE 0)

\* max(lookup_table)
TableMax(table, run) ==
    LET a == IF DOMAIN table = {} THEN 0 ELSE SetMax(DOMAIN table)
        b == IF run = <<>> THEN 0 ELSE run[1].columns.end + TRAILING - 1
    IN  IF a > b THEN a ELSE b

\* [i for i in range(1, max(lookup_table) + 1) if len(lookup_table[i]) == 0]
MissingEntries(table, run) ==
    {i \in 1..TableMax(table, run) : TableLen(table, run, i) = 0}

\* One iteration of `for gff_line in self.lines` on the state
\* st = [lookup_table, trailing, last_feature, dicts, gap_table, error]; parsed is the
\* object the stream yields, whose attributes dict becomes the next of dicts.
LookupIteration(st, parsed) ==
    LET heap0 == Append(st.dicts, parsed.attributes)
        gff_line == SharedLine(parsed.columns, Len(heap0))
    IN  IF ~Eligible(parsed.columns, parsed.attributes)
        THEN [st EXCEPT !.dicts = heap0]
        ELSE IF GapfillRaises(gff_line, st.last_feature, heap0)
        THEN [st EXCEPT !.dicts = heap0, !.error = Raise("KeyError", NAME)]
        ELSE LET gap == gapfill_table(gff_line, st.last_feature, heap0)
                 body == BodyLoop(TableUpdate(st.lookup_table, gap), heap0,
                                  gff_line)
             IN  [st EXCEPT !.lookup_table = body.lookup_table,
                            !.last_feature = <<copy(gff_line)>>,
                            !.dicts = body.dicts,
                            !.gap_table = gap]

LookupFinishNone(st) == st

\* The code after the loop: the trailing region, the validation, the return.
LookupFinish(st) ==
    IF st.last_feature = <<>>
    THEN [st EXCEPT !.error = Raise("AttributeError", <<>>)]
    ELSE LET last == st.last_feature[1]
             run == <<TrailingRun(last, st.dicts)>>
             final == last.columns.end + TRAILING - 1
             after == [st EXCEPT
                          !.trailing = run,
                          !.last_feature =
                              <<TrailingLine(run[1].columns, run[1].attr, final)>>]
         IN  IF MissingEntries(st.lookup_table, run) # {}
             \* ', '.join(missing_entries) fails on integers before the
             \* AttributeError is built
             THEN [after EXCEPT !.error = Raise("TypeError", <<>>)]
             ELSE after

LookupStart ==
    [lookup_table |-> <<>>, trailing |-> <<>>, last_feature |-> <<>>,
     dicts |-> <<>>, gap_table |-> <<>>, error |-> NoError]


----------------------------------------------------------------------------
(* str methods *)

WHITESPACE == {SPACE, TAB}

DIGITS == <<"0", "1", "2", "3", "4", "5", "6", "7", "8", "9">>

IsDigit(c) == \E d \in 1..Len(DIGITS) : DIGITS[d] = c

DigitValue(c) == (CHOOSE d \in 1..Len(DIGITS) : DIGITS[d] = c) - 1

RECURSIVE lstrip(_, _)
lstrip(s, chars) ==
    IF s # <<>> /\ s[1] \in chars THEN lstrip(Tail(s), chars) ELSE s

RECURSIVE rstrip(_, _)
rstrip(s, chars) ==
    IF s # <<>> /\ s[Len(s)] \in chars
    THEN rstrip(SubSeq(s, 1, Len(s) - 1), chars)
    ELSE s

strip(s) == rstrip(lstrip(s, WHITESPACE), WHITESPACE)

startswith(s, prefix) ==
    Len(s) >= Len(prefix) /\ SubSeq(s, 1, Len(prefix)) = prefix

\* s.split(sep) for a one-character sep
RECURSIVE split(_, _)
split(s, sep) ==
    IF \A j \in 1..Len(s) : s[j] # sep
    THEN <<s>>
    ELSE LET j == CHOOSE x \in 1..Len(s) :
                      s[x] = sep /\ \A y \in 1..(x - 1) : s[y] # sep
         IN  <<SubSeq(s, 1, j - 1)>> \o split(SubSeq(s, j + 1, Len(s)), sep)

\* sep.join(parts)
RECURSIVE join(_, _)
join(parts, sep) ==
    IF parts = <<>> THEN <<>>
    ELSE IF Len(parts) = 1 THEN parts[1]
    ELSE parts[1] \o <<sep>> \o join(Tail(parts), sep)

\* the digits of an int literal: surrounding whitespace and one sign dropped
IntDigits(s) ==
    LET t == strip(s)
    IN  IF t # <<>> /\ t[1] \in {"+", "-"} THEN Tail(t) ELSE t

\* whether int(s) succeeds (underscores between digits are left out)
IntOk(s) ==
    /\ IntDigits(s) # <<>>
    /\ \A j \in 1..Len(IntDigits(s)) : IsDigit(IntDigits(s)[j])

RECURSIVE DecimalValue(_)
DecimalValue(ds) ==
    IF ds = <<>> THEN 0
    ELSE 10 * DecimalValue(SubSeq(ds, 1, Len(ds) - 1)) + DigitValue(ds[Len(ds)])

\* int(s)
int(s) ==
    LET t == strip(s)
        v == DecimalValue(IntDigits(s))
    IN  IF t[1] = "-" THEN -v ELSE v


----------------------------------------------------------------------------
(* GffMetadatum, GffColumns, GffLine as the parser constructs them *)

\* GffMetadatum(name=this_metadata[0], flag=flag, values=this_metadata[1:])
\* for a stripped header line
GffMetadatum(line) ==
    LET flag == IF startswith(line, <<HASH, HASH>>) THEN "constrained" ELSE "free"
        this_metadata == split(lstrip(lstrip(line, {HASH}), WHITESPACE), TAB)
    IN  [name |-> this_metadata[1], flag |-> flag, values |-> Tail(this_metadata)]

\* data[:8]
First8(data) == SubSeq(data, 1, IF Len(data) < 8 THEN Len(data) ELSE 8)

\* GffColumns(*args) raises TypeError when a field without default is missing
\* (seqid, source, feature, start, end)
ColumnsTypeError(args) == Len(args) < 5

\* GffColumns.__post_init__: int(self.start), int(self.end)
ColumnsValueError(args) == ~IntOk(args[4]) \/ ~IntOk(args[5])

\* the text the ValueError of int() quotes
BadLiteral(args) == IF ~IntOk(args[4]) THEN args[4] ELSE args[5]

GffColumns(args) ==
    [seqid |-> args[1], source |-> args[2], feature |-> args[3],
     start |-> int(args[4]), end |-> int(args[5]),
     score |-> IF Len(args) >= 6 THEN args[6] ELSE S("."),
     strand |-> IF Len(args) >= 7 THEN args[7] ELSE S("+"),
     phase |-> IF Len(args) >= 8 THEN args[8] ELSE S(".")]

\* dict(zip(attributes, values)) for the pairs from position j on
RECURSIVE ZipDict(_, _, _, _)
ZipDict(d, keys, values, j) ==
    IF j > Len(keys) \/ j > Len(values) THEN d
    ELSE ZipDict(DictSet(d, keys[j], values[j]), keys, values, j + 1)

get_gff_attributes_first(x) ==
    LET eq == split(x, "=")
        splits_on_equal_sign == [j \in 1..Len(eq) |-> split(eq[j], ";")]
        attributes == [j \in 1..Len(eq) |-> splits_on_equal_sign[j][1]]
        values == [j \in 1..(Len(eq) - 1) |-> splits_on_equal_sign[j + 1][1]]
    IN  ZipDict(<<>>, attributes, values, 1)

get_gff_attributes_last_value(x) ==
    LET eq == split(x, "=")
        splits_on_equal_sign == [j \in 1..Len(eq) |-> split(eq[j], ";")]
        attributes == [j \in 1..Len(eq) |->
                          splits_on_equal_sign[j][Len(splits_on_equal_sign[j])]]
        values == [j \in 1..(Len(eq) - 1) |->
                      splits_on_equal_sign[j + 1][Len(splits_on_equal_sign[j + 1])]]
    IN  ZipDict(<<>>, attributes, values, 1)

\* GffLine._get_gff_attributes
get_gff_attributes(x) ==
    LET eq == split(x, "=")
        splits_on_equal_sign == [j \in 1..Len(eq) |-> split(eq[j], ";")]
        attributes == [j \in 1..Len(eq) |->
                          splits_on_equal_sign[j][Len(splits_on_equal_sign[j])]]
        values == [j \in 1..(Len(eq) - 1) |-> splits_on_equal_sign[j + 1][1]]
    IN  ZipDict(<<>>, attributes, values, 1)

\* GffLine(columns, attributes) for a data line split on tabs
GffLine(data) ==
    [columns |-> GffColumns(First8(data)),
     attributes |-> get_gff_attributes(join(SubSeq(data, 9, Len(data)), TAB))]

----------------------------------------------------------------------------
(* Serialisation: __str__ of the data classes, GffLine.as_dict, the table   *)
(* of to_csv.  The output file is a sequence of lines; a line print()      *)
(* wrote is a str, a row csv.DictWriter wrote is the sequence of its cells *)

\* str(i) for a non-negative int
RECURSIVE NatStr(_)
NatStr(i) ==
    IF i < 10 THEN <<DIGITS[i + 1]>>
    ELSE NatStr(i \div 10) \o <<DIGITS[(i % 10) + 1]>>

\* str(i) for an int
IntStr(i) == IF i < 0 THEN <<"-">> \o NatStr(-i) ELSE NatStr(i)

\* GffMetadatum.__str__
GffMetadatumStr(m) ==
    (IF m.flag = "constrained" THEN <<HASH, HASH>> ELSE <<HASH>>)
    \o m.name \o <<TAB>> \o join(m.values, TAB)

\* GffMetadata.write: print('\n'.join(map(str, self.data))), which prints an
\* empty line for an empty block
MetadataOutput(md) ==
    IF md = <<>> THEN <<<<>>>>
    ELSE [j \in 1..Len(md) |-> GffMetadatumStr(md[j])]

GFF_COLNAMES ==
    <<S("seqid"), S("source"), S("feature"), S("start"), S("end"),
      S("score"), S("strand"), S("phase")>>

\* GffColumns.as_dict with every value as str() shows it
ColumnsAsDict(columns) ==
    <<<<S("seqid"), columns.seqid>>, <<S("source"), columns.source>>,
      <<S("feature"), columns.feature>>,
      <<S("start"), IntStr(columns.start)>>, <<S("end"), IntStr(columns.end)>>,
      <<S("score"), columns.score>>, <<S("strand"), columns.strand>>,
      <<S("phase"), columns.phase>>>>

\* GffColumns.__str__
GffColumnsStr(columns) ==
    join([j \in 1..8 |-> ColumnsAsDict(columns)[j][2]], TAB)

\* GffLine.__str__
GffLineStr(line) ==
    GffColumnsStr(line.columns) \o <<TAB>>
    \o join([j \in 1..Len(line.attributes) |->
                line.attributes[j][1] \o <<"=">> \o line.attributes[j][2]],
            ";")

\* d.update(other)
RECURSIVE DictUpdate(_, _)
DictUpdate(d, other) ==
    IF other = <<>> THEN d
    ELSE DictUpdate(DictSet(d, other[1][1], other[1][2]), Tail(other))

\* GffLine.as_dict: the columns, updated with the attributes
LineAsDict(line) == DictUpdate(ColumnsAsDict(line.columns), line.attributes)

\* the attribute keys of the model's inputs in the order of sorted()
KEY_ORDER ==
    <<S("ID"), S("Name"), S("Parent"), S("note"), S("start")>>

\* sorted(attribute_keys)
SortedKeys(keys) ==
    SelectSeq(KEY_ORDER, LAMBDA k : k \in keys)

\* attribute_keys |= set(gff_line.attributes) over all lines
AttributeKeys(items) ==
    UNION {{items[j].attributes[a][1] : a \in 1..Len(items[j].attributes)} :
           j \in 1..Len(items)}

\* csv_fieldnames
CsvFieldnames(items) == GFF_COLNAMES \o SortedKeys(AttributeKeys(items))

\* DictWriter.writerow: rowdict.get(key, '') for each fieldname
CsvRow(fieldnames, d) ==
    [c \in 1..Len(fieldnames) |->
        IF DictHas(d, fieldnames[c]) THEN DictGet(d, fieldnames[c]) ELSE <<>>]

\* writer.writeheader(), then writer.writerow for every line of as_dict()
CsvOutput(items) ==
    <<CsvFieldnames(items)>>
    \o [j \in 1..Len(items) |->
           CsvRow(CsvFieldnames(items), LineAsDict(items[j]))]

----------------------------------------------------------------------------
(* GffFile._from_file: a generator.  cursor is the line of `for line in    *)
(* file` it has reached; status says where it is suspended:                *)
(*   "created"   not started                                               *)
(*   "metadata"  at `yield GffMetadata(metadata)`, on the data line cursor *)
(*   "line"      at `yield GffLine(columns, attributes)`                   *)
(*   "finished"  returned at the end of the file                           *)
(*   "raised"    ended by the exception exc                                *)

NewParser ==
    [cursor |-> 0, metadata |-> <<>>, metadata_shown |-> FALSE,
     status |-> "created", exc |-> NoError]

\* what a next() gives: the generator after it and the item
Yield(g, kind, value) == [g |-> g, kind |-> kind, value |-> value]

\* lines 728-746 for the data line under the cursor
ParseData(g, f) ==
    LET line == strip(f[g.cursor])
        data == split(line, TAB)
        shown == [g EXCEPT !.metadata_shown = TRUE]
    IN  IF ColumnsTypeError(First8(data))
        THEN LET e == Raise("IOError", line)
             IN  Yield([shown EXCEPT !.status = "raised", !.exc = e], "raise", e)
        ELSE IF ColumnsValueError(First8(data))
        THEN LET e == Raise("ValueError", BadLiteral(First8(data)))
             IN  Yield([shown EXCEPT !.status = "raised", !.exc = e], "raise", e)
        ELSE Yield([shown EXCEPT !.status = "line"], "line", GffLine(data))

\* the loop `for line in file`, entering the iteration of line j
RECURSIVE Scan(_, _, _)
Scan(g, f, j) ==
    IF j > Len(f)
    THEN Yield([g EXCEPT !.cursor = Len(f), !.status = "finished"], "stop", <<>>)
    ELSE LET line == strip(f[j])
         IN  IF startswith(line, <<HASH>>)
             THEN Scan([g EXCEPT !.metadata = Append(@, GffMetadatum(line))], f, j + 1)
             ELSE IF Len(line) > 0
             THEN IF ~g.metadata_shown
                  THEN Yield([g EXCEPT !.cursor = j, !.status = "metadata"],
                             "metadata", g.metadata)
                  ELSE ParseData([g EXCEPT !.cursor = j], f)
             ELSE Scan(g, f, j + 1)

GenNextResume(g, f) ==
    CASE g.status = "finished" -> Yield(g, "stop", <<>>)
      [] g.status = "metadata" -> ParseData(g, f)
      [] OTHER -> Scan(g, f, g.cursor + 1)

\* next(generator)
GenNext(g, f) ==
    CASE g.status \in {"finished", "raised"} -> Yield(g, "stop", <<>>)
      [] g.status = "metadata" -> ParseData(g, f)
      [] OTHER -> Scan(g, f, g.cursor + 1)

\* pull until the generator stops or raises: [g, items, error]
RECURSIVE Drain(_, _, _)
Drain(g, f, items) ==
    LET r == GenNext(g, f)
    IN  CASE r.kind = "line" -> Drain(r.g, f, Append(items, r.value))
          [] r.kind = "raise" -> [g |-> r.g, items |-> items, error |-> r.value]
          [] r.kind = "stop" -> [g |-> r.g, items |-> items, error |-> NoError]


----------------------------------------------------------------------------
(* Inputs: record streams for the lookup table *)

Columns(feature, start, end, strand) ==
    [seqid |-> S("chr"), source |-> S("src"), feature |-> feature,
     start |-> start, end |-> end, score |-> S("."), strand |-> strand,
     phase |-> S(".")]

Gene(start, end, strand) ==
    [feature |-> S("gene"), start |-> start, end |-> end, strand |-> strand,
     name |-> TRUE, parent |-> FALSE]

EligibleShapes ==
    {Gene(a, b, sd) : a \in 1..MaxCoord, b \in 1..MaxCoord, sd \in {S("+"), S("-")}}

\* records the loop must pass over: blocklisted types, a child, a nameless one
IneligibleShapes ==
    {[Gene(1, MaxCoord, S("+")) EXCEPT !.feature = S("region")],
     [Gene(2, 2, S("-")) EXCEPT !.feature = S("repeat_region")],
     [Gene(1, MaxCoord, S("-")) EXCEPT !.parent = TRUE],
     [Gene(1, MaxCoord, S("+")) EXCEPT !.name = FALSE]}

Shapes == EligibleShapes \cup IneligibleShapes

\* the k-th record of a stream: its ID and Name end in the digit k
MkLine(shape, k) ==
    [columns |-> Columns(shape.feature, shape.start, shape.end, shape.strand),
     attributes |->
         <<<<S("ID"), <<"id", DIGITS[k + 1]>>>>>>
         \o (IF shape.name THEN <<<<NAME, <<"g", DIGITS[k + 1]>>>>>> ELSE <<>>)
         \o (IF shape.parent THEN <<<<PARENT, <<"id", "0">>>>>> ELSE <<>>)]

MkStream(shapes) == [k \in 1..Len(shapes) |-> MkLine(shapes[k], k)]

\* the streams of the documentation: two genes with a gap, one long gene on
\* either strand, a gap of twenty between two genes, two genes inside a third
ExampleStreams ==
    {MkStream(<<Gene(1, 10, S("+")), Gene(21, 30, S("+"))>>),
     MkStream(<<Gene(100, 200, S("+"))>>),
     MkStream(<<Gene(100, 200, S("-"))>>),
     MkStream(<<Gene(50, 100, S("+")), Gene(121, 130, S("+"))>>),
     MkStream(<<Gene(1, 100, S("+")), Gene(10, 20, S("+")), Gene(30, 40, S("-"))>>)}

Streams ==
    ExampleStreams
    \cup UNION {{MkStream(sh) : sh \in [1..len -> Shapes]} : len \in 0..MaxLines}

----------------------------------------------------------------------------
(* Inputs: text files *)

Row(fields) == join(fields, TAB)

GeneFields ==
    <<S("chr"), S("src"), S("gene"), S("1"), S("2"), S("."), S("+"), S(".")>>

LineBlank == <<>>
LineSpaces == <<SPACE>>
LineMeta == <<HASH, HASH, "m", TAB, "a">>
LineFree == <<HASH, "n", TAB, "b", TAB, "c">>
LineGene == Row(GeneFields \o <<<<"Name", "=", "ga", ";", "ID", "=", "a">>>>)
LineGeneMinus ==
    Row(<<S("chr"), S("src"), S("gene"), S("5"), S("6"), S("."), S("-"), S("."),
          <<"ID", "=", "b", ";", "Name", "=", "gb">>>>)
LineChild == Row(GeneFields \o <<<<"Name", "=", "gc", ";", "Parent", "=", "a">>>>)
LineSeven == Row(SubSeq(GeneFields, 1, 7))
LineFive == Row(SubSeq(GeneFields, 1, 5))
LineFour == Row(SubSeq(GeneFields, 1, 4))
LineOne == Row(SubSeq(GeneFields, 1, 1))
LineBadStart ==
    Row(<<S("chr"), S("src"), S("gene"), S("x"), S("2"), S("."), S("+"), S("."),
          <<"Name", "=", "gd">>>>)

LinePool ==
    {LineBlank, LineSpaces, LineMeta, LineFree, LineGene, LineGeneMinus,
     LineChild, LineSeven, LineFive, LineFour, LineOne, LineBadStart}

Files == UNION {[1..len -> LinePool] : len \in 0..MaxFileLines}

----------------------------------------------------------------------------
(* The lookup table, step by step *)

LookupState ==
    [lookup_table |-> lookup_table, trailing |-> trailing,
     last_feature |-> last_feature,
     dicts |-> dicts, gap_table |-> gap_table, error |-> error]

\* GffFile(lines=stream, lookup=True) enters _lookup_table
InitLookup ==
    /\ stream \in Streams
    /\ n = 0
    /\ dicts = <<>>
    /\ lookup_table = <<>>
    /\ trailing = <<>>
    /\ last_feature = <<>>
    /\ gap_table = <<>>
    /\ pc = "loop"
    /\ error = NoError
    /\ file = <<>>
    /\ file_parser = NewParser
    /\ metadata = <<>>
    /\ lines = [kind |-> "tuple", items |-> stream]
    /\ lookup = TRUE
    /\ op = "init"
    /\ delivered = <<>>
    /\ out = <<>>

\* one iteration of `for gff_line in self.lines`
LookupStep ==
    /\ pc = "loop"
    /\ n < Len(stream)
    /\ \E st \in {LookupIteration(LookupState, stream[n + 1])} :
           /\ lookup_table' = st.lookup_table
           /\ trailing' = st.trailing
           /\ last_feature' = st.last_feature
           /\ dicts' = st.dicts
           /\ gap_table' = st.gap_table
           /\ error' = st.error
           /\ pc' = IF st.error = NoError THEN "loop" ELSE "done"
    /\ n' = n + 1
    /\ UNCHANGED <<stream, parse_vars>>

\* the stream is exhausted: trailing region, validation, return
LookupReturn ==
    /\ pc = "loop"
    /\ n = Len(stream)
    /\ \E st \in {LookupFinish(LookupState)} :
           /\ lookup_table' = st.lookup_table
           /\ trailing' = st.trailing
           /\ last_feature' = st.last_feature
           /\ dicts' = st.dicts
           /\ gap_table' = st.gap_table
           /\ error' = st.error
    /\ pc' = "done"
    /\ UNCHANGED <<stream, n, parse_vars>>

NextLookup == LookupStep \/ LookupReturn

SpecLookup == InitLookup /\ [][NextLookup]_vars
----------------------------------------------------------------------------
(* GffFile.from_file and the operations of the GffFile it returns *)

\* the whole loop of _lookup_table over the items pulled from self.lines
RECURSIVE LookupLoop(_, _, _)
LookupLoop(st, items, j) ==
    IF j > Len(items) \/ st.error # NoError
    THEN st
    ELSE LookupLoop(LookupIteration(st, items[j]), items, j + 1)

\* no object exists yet
Init ==
    /\ file \in Files
    /\ pc = "start"
    /\ file_parser = NewParser
    /\ metadata = <<>>
    /\ lines = [kind |-> "none", items |-> <<>>]
    /\ lookup = FALSE
    /\ op = "none"
    /\ delivered = <<>>
    /\ out = <<>>
    /\ error = NoError
    /\ stream = <<>>
    /\ n = 0
    /\ dicts = <<>>
    /\ lookup_table = <<>>
    /\ trailing = <<>>
    /\ last_feature = <<>>
    /\ gap_table = <<>>

\* GffFile.from_file(file, lookup=lk): the first items of the generator up to
\* the GffMetadata, then the constructor, whose __post_init__ builds the
\* lookup table from self.lines when lk is set
FromFile(lk) ==
    /\ pc = "start"
    /\ \E first \in {GenNext(NewParser, file)} :
       \E md \in {IF first.kind = "metadata" THEN first.value ELSE <<>>} :
       \E pulled \in {Drain(first.g, file, <<>>)} :
       \E st \in {LookupFinish(LookupLoop(LookupStart, pulled.items, 1))} :
       \E failure \in {IF pulled.error # NoError THEN pulled.error ELSE st.error} :
           /\ op' = "from_file"
           /\ lookup' = lk
           /\ delivered' = <<>>
           /\ out' = <<>>
           /\ UNCHANGED file
           /\ IF ~lk
              THEN /\ pc' = "open"
                   /\ file_parser' = first.g
                   /\ metadata' = md
                   /\ lines' = [kind |-> "generator", items |-> <<>>]
                   /\ error' = NoError
                   /\ UNCHANGED lookup_vars
              ELSE IF failure # NoError
              THEN /\ pc' = "failed"
                   /\ file_parser' = pulled.g
                   /\ error' = failure
                   /\ UNCHANGED <<metadata, lines, lookup_vars>>
              ELSE /\ pc' = "open"
                   /\ file_parser' = pulled.g
                   /\ metadata' = md
                   /\ lines' = [kind |-> "generator", items |-> <<>>]
                   /\ error' = NoError
                   /\ stream' = pulled.items
                   /\ n' = Len(pulled.items)
                   /\ dicts' = st.dicts
                   /\ lookup_table' = st.lookup_table
                   /\ trailing' = st.trailing
                   /\ last_feature' = st.last_feature
                   /\ gap_table' = st.gap_table

PullAllGenerator == Drain(file_parser, file, <<>>)

\* everything a loop over self.lines receives
PullAll ==
    IF lines.kind = "generator"
    THEN Drain(file_parser, file, <<>>)
    ELSE [g |-> file_parser, items |-> lines.items, error |-> NoError]

\* `for line in gff.lines: break`
FirstLine ==
    /\ pc = "open"
    /\ op' = "first_line"
    /\ IF lines.kind = "generator"
       THEN \E r \in {GenNext(file_parser, file)} :
                /\ file_parser' = r.g
                /\ delivered' = IF r.kind = "line" THEN <<r.value>> ELSE <<>>
                /\ error' = IF r.kind = "raise" THEN r.value ELSE NoError
       ELSE /\ delivered' = IF lines.items = <<>> THEN <<>> ELSE <<lines.items[1]>>
            /\ error' = NoError
            /\ UNCHANGED file_parser
    /\ out' = <<>>
    /\ UNCHANGED <<pc, metadata, lines, lookup, file, lookup_vars>>

\* list(gff.as_dict()) writes nothing
AsDictOutput(items) == <<>>

\* GffFile.write: the metadata, then every line up to the one that fails
WriteOutput(items) ==
    MetadataOutput(metadata) \o [j \in 1..Len(items) |-> GffLineStr(items[j])]

\* a loop that passes every line on, as list(gff.as_dict()) and gff.write()
\* do; out is what the operation prints for the lines it has received
PassAll(name) ==
    /\ pc = "open"
    /\ op' = name
    /\ \E p \in {PullAll} :
           /\ file_parser' = p.g
           /\ delivered' = p.items
           /\ error' = p.error
           /\ out' = IF name = "write"
                     THEN WriteOutput(p.items) ELSE AsDictOutput(p.items)
    /\ UNCHANGED <<pc, metadata, lines, lookup, file, lookup_vars>>

AsDict == PassAll("as_dict")

Write == PassAll("write")

\* GffFile.to_csv: self.lines = tuple(self.lines) before anything is written
ToCsv(write_metadata) ==
    /\ pc = "open"
    /\ op' = "to_csv"
    /\ \E p \in {PullAll} :
           /\ file_parser' = p.g
           /\ IF p.error # NoError
              THEN /\ error' = p.error
                   /\ delivered' = <<>>
                   /\ out' = <<>>
                   /\ UNCHANGED lines
              ELSE /\ lines' = [kind |-> "tuple", items |-> p.items]
                   /\ IF p.items = <<>>
                      THEN /\ error' = Raise("IOError", S("GFF stream is empty."))
                           /\ delivered' = <<>>
                           /\ out' = <<>>
                      ELSE /\ error' = NoError
                           /\ delivered' = p.items
                           /\ out' = (IF write_metadata
                                      THEN MetadataOutput(metadata) ELSE <<>>)
                                     \o CsvOutput(p.items)
    /\ UNCHANGED <<pc, metadata, lookup, file, lookup_vars>>

Next ==
    \/ \E lk \in BOOLEAN : FromFile(lk)
    \/ FirstLine
    \/ AsDict
    \/ Write
    \/ \E write_metadata \in BOOLEAN : ToCsv(write_metadata)

Spec == Init /\ [][Next]_vars
----------------------------------------------------------------------------
(* Properties of GffFile._lookup_table, checked under SpecLookup *)

\* an indexable parent feature in the words of the eligibility rule
Indexable(rec) ==
    /\ rec.columns.feature # S("region")
    /\ rec.columns.feature # S("repeat_region")
    /\ DictHas(rec.attributes, NAME)
    /\ ~DictHas(rec.attributes, PARENT)

IndexableLines == {k \in 1..Len(stream) : Indexable(stream[k])}

\* _lookup_table has returned its table
Returned == pc = "done" /\ error = NoError

BodyRecords(k, i) ==
    IF i \in DOMAIN lookup_table
    THEN {r \in 1..Len(lookup_table[i]) : lookup_table[i][r].dict_id = k}
    ELSE {}

\* C2: body offset.  In the returned table every body record of a feature F
\* stored under a coordinate i of F.start..F.end carries
\* offset = abs(i - reference), reference being F.start on the '+' strand
\* and F.end otherwise.
C2_BodyOffset ==
    Returned =>
        \A k \in IndexableLines :
            \A i \in stream[k].columns.start..stream[k].columns.end :
                \A r \in BodyRecords(k, i) :
                    DictGet(Attributes(lookup_table[i][r], dicts), OFFSET)
                        = Abs(i - (IF stream[k].columns.strand = S("+")
                                   THEN stream[k].columns.start
                                   ELSE stream[k].columns.end))

\* the end of the last indexable feature of the stream
LastEnd == stream[SetMax(IndexableLines)].columns.end

\* C3: trailing region extent.  The trailing synthetic records are stored
\* under exactly the 1000 coordinates end+1 .. end+1000, end being the end of
\* the last indexable feature, and the largest key of the table is end+1000.
C3_TrailingExtent ==
    Returned =>
        /\ TrailingKeys(trailing) = (LastEnd + 1)..(LastEnd + 1000)
        /\ TableMax(lookup_table, trailing) = LastEnd + 1000

\* the indexable feature before line n, and line n
Upstream == stream[SetMax({j \in IndexableLines : j < n})]

Downstream == stream[n]

\* the iteration for line n has filled the gap between two '+' features, the
\* upstream one with start <= end
GapCase ==
    /\ error = NoError
    /\ n \in IndexableLines
    /\ \E j \in IndexableLines : j < n
    /\ Downstream.columns.strand = S("+")
    /\ Upstream.columns.strand = S("+")
    /\ Upstream.columns.start <= Upstream.columns.end

\* C4 as stated: between two consecutive '+' features the pre-midpoint
\* coordinates carry '_down-<UpstreamName>' and a positive offset counted
\* from the upstream end; the post-midpoint coordinates carry
\* '_up-<DownstreamName>' and a negative offset whose magnitude is the
\* distance to the downstream start.
C4_AsStated ==
    GapCase =>
        \A i \in DOMAIN gap_table :
            LET a == gap_table[i][1].attributes
            IN  IF i <= GapMidpoint(Upstream.columns.end, Downstream.columns.start)
                THEN /\ DictGet(a, LOCUS_TAG)
                            = S("_down-") \o DictGet(Upstream.attributes, NAME)
                     /\ DictGet(a, OFFSET) = i - Upstream.columns.end
                     /\ DictGet(a, OFFSET) > 0
                ELSE /\ DictGet(a, LOCUS_TAG)
                            = S("_up-") \o DictGet(Downstream.attributes, NAME)
                     /\ DictGet(a, OFFSET) = -(Downstream.columns.start - i)
                     /\ DictGet(a, OFFSET) < 0

\* C4: gap offsets between two consecutive '+' features.  The gap table
\* covers exactly the coordinates between them; up to the midpoint they
\* carry '_down-<UpstreamName>' and offset i - upstream.start, counted from
\* the upstream start; after it they carry '_up-<DownstreamName>' and the
\* positive offset downstream.start - i.
C4_GapOffsets ==
    GapCase =>
        /\ DOMAIN gap_table
               = (Upstream.columns.end + 1)..(Downstream.columns.start - 1)
        /\ \A i \in DOMAIN gap_table :
            LET a == gap_table[i][1].attributes
            IN  IF i <= GapMidpoint(Upstream.columns.end, Downstream.columns.start)
                THEN /\ DictGet(a, LOCUS_TAG)
                            = S("_down-") \o DictGet(Upstream.attributes, NAME)
                     /\ DictGet(a, OFFSET) = i - Upstream.columns.start
                     /\ DictGet(a, OFFSET) > 0
                ELSE /\ DictGet(a, LOCUS_TAG)
                            = S("_up-") \o DictGet(Downstream.attributes, NAME)
                     /\ DictGet(a, OFFSET) = Downstream.columns.start - i
                     /\ DictGet(a, OFFSET) > 0

\* a gap with coordinates on both sides of its midpoint, below a feature
\* longer than one coordinate
C4_Witness ==
    /\ GapCase
    /\ Upstream.columns.start < Upstream.columns.end
    /\ \E i, j \in DOMAIN gap_table :
           /\ i <= GapMidpoint(Upstream.columns.end, Downstream.columns.start)
           /\ j > GapMidpoint(Upstream.columns.end, Downstream.columns.start)

\* the keys the feature loop has stored under, and the first and the last
\* key of the trailing loop, whose objects differ in their offset only
HeldKeys ==
    DOMAIN lookup_table
    \cup (IF trailing = <<>> THEN {}
         ELSE {trailing[1].columns.end, trailing[1].columns.end + TRAILING - 1})

\* the objects the procedure holds: in the table, in the gap table, as
\* last_feature
HeldRecords ==
    UNION {{TableGet(lookup_table, trailing, i)[r] :
                r \in 1..Len(TableGet(lookup_table, trailing, i))} :
           i \in HeldKeys}
    \cup UNION {{gap_table[i][r] : r \in 1..Len(gap_table[i])} :
                i \in DOMAIN gap_table}
    \cup {last_feature[r] : r \in 1..Len(last_feature)}

\* rec is line k of the stream or a synthetic copy of it
DerivesFrom(rec, k) ==
    /\ rec.columns = stream[k].columns
    /\ DictGet(Attributes(rec, dicts), S("ID"))
           = DictGet(stream[k].attributes, S("ID"))

\* C5: blocklist and eligibility.  A record of type region or repeat_region,
\* or with a Parent attribute, or without a Name attribute, never becomes
\* last_feature and is never the source of a body, gap or trailing entry:
\* every object held derives from an indexable line of the stream.
C5_OnlyEligible ==
    \A rec \in HeldRecords : \E k \in IndexableLines : DerivesFrom(rec, k)

\* a table returned for a stream that holds a record of a blocklisted type
\* and a child record or an indexable one
C5_Witness ==
    /\ Returned
    /\ \E k \in 1..Len(stream) : stream[k].columns.feature = S("region")
    /\ \E k \in 1..Len(stream) : stream[k].columns.feature # S("region")

\* a record that only the missing Name keeps from being indexed
NamelessCandidate(rec) ==
    /\ rec.columns.feature # S("region")
    /\ rec.columns.feature # S("repeat_region")
    /\ ~DictHas(rec.attributes, PARENT)
    /\ ~DictHas(rec.attributes, NAME)

\* C10 as stated: when the stream holds a record that would be indexed but
\* for its missing Name, the construction ends with a key-lookup error and
\* returns no table.
C10_AsStated ==
    (pc = "done" /\ \E k \in 1..Len(stream) : NamelessCandidate(stream[k])) =>
        error.type = "KeyError"

\* C10: a record without Name is passed over.  The iteration that receives a
\* record that would be indexed but for its missing Name raises nothing and
\* leaves the table, the gap table and last_feature as they were.
C10_NamelessSkipped ==
    [][(pc = "loop" /\ n < Len(stream) /\ NamelessCandidate(stream[n + 1])) =>
           /\ error' = NoError
           /\ pc' = "loop"
           /\ lookup_table' = lookup_table
           /\ gap_table' = gap_table
           /\ last_feature' = last_feature]_vars

\* a table returned although the stream held such a record
C10_Witness ==
    /\ Returned
    /\ \E k \in 1..Len(stream) : NamelessCandidate(stream[k])
----------------------------------------------------------------------------
(* Properties of from_file and the parser, checked under Spec *)

\* C6: lookup and record stream coexist.  After from_file with lookup=True
\* has built the table, a following as_dict(), write() or to_csv() delivers
\* every record of the input, in file order (stream holds the records the
\* table was built from).
C6_RecordsAfterLookup ==
    (pc = "open" /\ lookup /\ op \in {"as_dict", "write", "to_csv"}) =>
        /\ error = NoError
        /\ delivered = stream

IsHeader(line) == startswith(strip(line), <<HASH>>)

IsData(line) == strip(line) # <<>> /\ ~IsHeader(line)

\* the lines before the first non-blank non-header line
LeadingLines(f) ==
    IF \E j \in 1..Len(f) : IsData(f[j])
    THEN (CHOOSE j \in 1..Len(f) :
              IsData(f[j]) /\ \A h \in 1..(j - 1) : ~IsData(f[h])) - 1
    ELSE Len(f)

\* one MetadataLine per header line among the first j lines, in file order
RECURSIVE HeaderBlock(_, _)
HeaderBlock(f, j) ==
    IF j = 0 THEN <<>>
    ELSE HeaderBlock(f, j - 1)
         \o (IF IsHeader(f[j])
             THEN <<[GffMetadatum(strip(f[j])) EXCEPT
                        !.flag = IF startswith(strip(f[j]), <<HASH, HASH>>)
                                 THEN "constrained" ELSE "free"]>>
             ELSE <<>>)

\* C7: header block.  For every input text, an input with header lines and no
\* data line included, the metadata block from_file returns holds exactly
\* the header lines before the first non-blank non-header line, in file
\* order, flagged constrained iff the line starts with '##'.
C7_HeaderBlock ==
    pc = "open" => metadata = HeaderBlock(file, LeadingLines(file))

\* the generator has gone through the parse of the data line under its cursor
ParsedLine ==
    /\ file_parser.status \in {"line", "raised"}
    /\ file_parser.cursor \in 1..Len(file)

CursorLine == strip(file[file_parser.cursor])

\* C8: too few columns.  Every data line with fewer than 8 tab-separated
\* fields makes the parse fail with an error that holds the raw line, and no
\* record is produced for it.
C8_TooFewColumns ==
    (ParsedLine /\ Len(split(CursorLine, TAB)) < 8) =>
        /\ file_parser.status = "raised"
        /\ file_parser.exc = Raise("IOError", CursorLine)

\* C9: non-integer coordinates.  A data line whose start or end field is not
\* an integer literal ends the parse with the error of a line with too few
\* fields, which holds the raw line; the start and end of every record
\* delivered are integers.
C9_NonIntegerCoordinates ==
    /\ (/\ ParsedLine
        /\ Len(split(CursorLine, TAB)) >= 5
        /\ \/ ~IntOk(split(CursorLine, TAB)[4])
           \/ ~IntOk(split(CursorLine, TAB)[5])) =>
           /\ file_parser.status = "raised"
           /\ file_parser.exc = Raise("IOError", CursorLine)
    /\ \A r \in 1..Len(delivered) :
           /\ delivered[r].columns.start \in Int
           /\ delivered[r].columns.end \in Int
----------------------------------------------------------------------------
(* Inputs: single lines of text, for the parse and print of one line *)

\* most key=value pairs in a generated attribute field
MaxPairs == 2
\* most atoms in a generated free-form attribute string
MaxAttrLen == 5
\* most values in a generated header line
MaxValues == 2

AttrKeys == {S("ID"), S("Name"), S("note")}

AttrValues == {<<"v">>, <<>>, <<"v", SPACE>>, <<"a", SPACE, "b">>}

\* the pair sequences with distinct keys
PairLists ==
    UNION {{ps \in [1..len -> AttrKeys \X AttrValues] :
               \A a, b \in 1..len : a # b => ps[a][1] # ps[b][1]} :
           len \in 0..MaxPairs}

\* the attribute field: the pairs as key=value, joined by ';'
PairField(ps) ==
    join([j \in 1..Len(ps) |-> ps[j][1] \o <<"=">> \o ps[j][2]], ";")

\* the data lines of 8 columns and an attribute field of pairs
DataLines ==
    {Row(<<seqid, S("src"), S("gene"), start, S("7"), S("."), S("+"), phase,
           PairField(ps)>>) :
        seqid \in {S("chr"), <<SPACE, "chr">>},
        start \in {S("0"), <<"1", "2">>, <<"-", "5">>},
        phase \in {S("."), <<>>},
        ps \in PairLists}

\* the data lines whose attribute field is any string of these atoms
AttrLines ==
    {Row(GeneFields \o <<x>>) :
        x \in UNION {[1..len -> {"=", ";", "k", "v"}] : len \in 0..MaxAttrLen}
              \cup {<<"ID", "=", "test01", ";", "attr1", "=", "+">>}}

\* header lines: '#' or '##', a name, values
HeaderLines ==
    {prefix \o Row(<<name>> \o values) :
        prefix \in {<<HASH>>, <<HASH, HASH>>},
        name \in {S("m"), <<"m", SPACE, "x">>},
        values \in UNION {[1..len -> {S("a"), <<"b", SPACE, "c">>}] :
                          len \in 0..MaxValues}}

\* files of one line, a header line being followed by a data line
TextFiles ==
    {<<d>> : d \in DataLines \cup AttrLines}
    \cup {<<h, LineGene>> : h \in HeaderLines}

\* a file is about to be opened
InitText ==
    /\ file \in TextFiles
    /\ pc = "start"
    /\ file_parser = NewParser
    /\ metadata = <<>>
    /\ lines = [kind |-> "none", items |-> <<>>]
    /\ lookup = FALSE
    /\ op = "none"
    /\ delivered = <<>>
    /\ out = <<>>
    /\ error = NoError
    /\ stream = <<>>
    /\ n = 0
    /\ dicts = <<>>
    /\ lookup_table = <<>>
    /\ trailing = <<>>
    /\ last_feature = <<>>
    /\ gap_table = <<>>

\* GffFile.from_file(file).write()
NextText == FromFile(FALSE) \/ Write

SpecText == InitText /\ [][NextText]_vars

----------------------------------------------------------------------------
(* Properties of the parse and print of one line, checked under SpecText *)

\* the fields of the only data line of the file
DataFields == split(file[Len(file)], TAB)

\* write() has printed the record of the data line
Printed == op = "write" /\ Len(delivered) = 1

\* the file is one data line of 8 columns with start and end in canonical
\* decimal and an attribute field of key=value pairs with distinct keys
PairsLine == Len(file) = 1 /\ file[1] \in DataLines

StripKeeps ==
    /\ DataFields[1] # <<>>
    /\ DataFields[1][1] \notin WHITESPACE
    /\ LET last == IF DataFields[9] = <<>> THEN DataFields[8] ELSE DataFields[9]
       IN  last # <<>> /\ last[Len(last)] \notin WHITESPACE

C12_MetadataRoundTrip ==
    (op = "write" /\ Len(file) = 2 /\ file[1] \in HeaderLines) =>
        /\ Len(metadata) = 1
        /\ metadata[1].flag = "constrained" <=> startswith(file[1], <<HASH, HASH>>)
        /\ GffMetadatumStr(metadata[1]) = file[1]
        /\ out[1] = file[1]
\* the attribute string of the data line, and its '='-groups cut at ';'
AttrString == IF Len(DataFields) >= 9 THEN DataFields[9] ELSE <<>>

AttrGroups ==
    [g \in 1..Len(split(AttrString, "=")) |->
        split(split(AttrString, "=")[g], ";")]

\* the i-th key is the last segment of group i, its value the first segment
\* of group i + 1
RuleKey(i) == AttrGroups[i][Len(AttrGroups[i])]

RuleValue(i) == AttrGroups[i + 1][1]

\* the file is one data line whose attribute field is any string
AttrLine == Len(file) = 1 /\ file[1] \in AttrLines

\* C13: attribute parsing rule.  The mapping parsed from an attribute string
\* holds exactly the keys that are the last ';'-segment of an '='-group
\* other than the last group, each once, in the order of their first
\* occurrence, each with the first ';'-segment of the group after its last
\* occurrence; other segments are discarded.  'ID=test01;attr1=+' gives
\* {ID: test01, attr1: +} and the empty string gives the empty mapping.
C13_AttributeRule ==
    (Printed /\ AttrLine) =>
        LET attrs == delivered[1].attributes
            pairs == 1..(Len(AttrGroups) - 1)
        IN  /\ \A i \in pairs :
                   /\ DictHas(attrs, RuleKey(i))
                   /\ DictGet(attrs, RuleKey(i))
                          = RuleValue(SetMax({j \in pairs : RuleKey(j) = RuleKey(i)}))
            /\ \A a \in 1..Len(attrs) :
                   \E i \in pairs :
                       /\ attrs[a][1] = RuleKey(i)
                       /\ \A j \in pairs : j < i => RuleKey(j) # RuleKey(i)
                       /\ Cardinality({RuleKey(j) : j \in 1..i}) = a
            /\ AttrString = <<>> => attrs = <<>>
            /\ AttrString = <<"ID", "=", "test01", ";", "attr1", "=", "+">> =>
                   attrs = <<<<S("ID"), S("test01")>>, <<S("attr1"), S("+")>>>>

\* 'v;k=v' has been parsed to {k: v}: the segment before the ';' is dropped
C13_Witness ==
    /\ Printed /\ AttrLine
    /\ AttrString = <<"v", ";", "k", "=", "v">>
    /\ delivered[1].attributes = <<<<S("k"), S("v")>>>>
----------------------------------------------------------------------------
(* Inputs: GffFile objects constructed from a list of records *)

CsvKeys == {S("ID"), S("note"), S("start")}

\* attribute mappings: up to MaxPairs distinct keys in any order
CsvAttributes ==
    UNION {{[j \in 1..len |-> <<ks[j], S("x")>>] :
               ks \in {f \in [1..len -> CsvKeys] :
                          \A a, b \in 1..len : a # b => f[a] # f[b]}} :
           len \in 0..MaxPairs}

CsvRecords ==
    {[columns |-> Columns(S("gene"), start, 4, S("+")), attributes |-> attrs] :
        start \in {1, 3}, attrs \in CsvAttributes}

\* GffFile(lines=[...], metadata=[...])
InitList ==
    /\ lines \in {[kind |-> "tuple", items |-> items] :
                     items \in UNION {[1..len -> CsvRecords] : len \in 0..MaxLines}}
    /\ metadata \in {<<>>, <<[name |-> S("m"), flag |-> "constrained",
                              values |-> <<S("a")>>]>>}
    /\ pc = "open"
    /\ file = <<>>
    /\ file_parser = NewParser
    /\ lookup = FALSE
    /\ op = "init"
    /\ delivered = <<>>
    /\ out = <<>>
    /\ error = NoError
    /\ stream = <<>>
    /\ n = 0
    /\ dicts = <<>>
    /\ lookup_table = <<>>
    /\ trailing = <<>>
    /\ last_feature = <<>>
    /\ gap_table = <<>>

NextList ==
    \/ FirstLine
    \/ AsDict
    \/ Write
    \/ \E write_metadata \in BOOLEAN : ToCsv(write_metadata)

SpecList == InitList /\ [][NextList]_vars

----------------------------------------------------------------------------
(* Properties of to_csv, checked under SpecList *)

\* the rows to_csv wrote after the metadata: the header, then the records
CsvRows == SubSeq(out, Len(out) - Len(delivered), Len(out))

\* the attribute keys of all records, each once, in sorted order
SortedUnion ==
    SelectSeq(KEY_ORDER,
              LAMBDA k : \E j \in 1..Len(delivered) :
                             DictHas(delivered[j].attributes, k))

\* C14: flattened table.  to_csv writes a header of the 8 fixed column names
\* followed by the sorted union of the attribute keys of all records, then
\* one row per record in stream order; in a row each fixed column holds the
\* record's column value and each attribute column holds the record's
\* attribute value, or is empty when the record lacks the attribute, also
\* when a key equals a fixed column name.
C14_FlattenedTable ==
    (op = "to_csv" /\ error = NoError) =>
        /\ Len(CsvRows) = Len(delivered) + 1
        /\ CsvRows[1] = GFF_COLNAMES \o SortedUnion
        /\ \A j \in 1..Len(delivered) :
               LET row == CsvRows[j + 1]
                   rec == delivered[j]
               IN  /\ Len(row) = 8 + Len(SortedUnion)
                   /\ SubSeq(row, 1, 8)
                          = <<rec.columns.seqid, rec.columns.source,
                              rec.columns.feature, IntStr(rec.columns.start),
                              IntStr(rec.columns.end), rec.columns.score,
                              rec.columns.strand, rec.columns.phase>>
                   /\ \A c \in 1..Len(SortedUnion) :
                          row[8 + c]
                              = IF DictHas(rec.attributes, SortedUnion[c])
                                THEN DictGet(rec.attributes, SortedUnion[c])
                                ELSE <<>>
----------------------------------------------------------------------------
(* Properties of the operations of a GffFile, checked under Spec *)

\* what the parser yields after the metadata block: [g, items, error]
FileRecords == Drain(GenNext(NewParser, file).g, file, <<>>)

\* C15: empty input is an error with no output.  When the record stream
\* holds no rows, to_csv raises its IOError and has written nothing, neither
\* header nor metadata; building the lookup table from a stream without rows
\* or without an indexable feature raises and returns no table.
C15_EmptyInput ==
    /\ (op = "to_csv" /\ lines.kind = "tuple" /\ lines.items = <<>>) =>
           /\ error = Raise("IOError", S("GFF stream is empty."))
           /\ out = <<>>
    /\ (/\ op = "from_file" /\ lookup
        /\ FileRecords.error = NoError
        /\ \A j \in 1..Len(FileRecords.items) : ~Indexable(FileRecords.items[j])) =>
           /\ pc = "failed"
           /\ error # NoError
           /\ lookup_table = <<>>
           /\ trailing = <<>>

\* from_file with lookup=True has failed on a file with records, none of
\* them indexable
C15_Witness ==
    /\ op = "from_file" /\ lookup /\ pc = "failed"
    /\ error.type = "AttributeError"
    /\ FileRecords.error = NoError
    /\ FileRecords.items # <<>>
----------------------------------------------------------------------------
(* Further properties of GffFile._lookup_table, checked under SpecLookup *)

\* the iteration for the indexable line n has run: gap_table is its gap
GapStep == error = NoError /\ n \in IndexableLines

HasUpstream == \E j \in IndexableLines : j < n

\* the upstream-side record: the indexable feature before line n, or line n
\* itself when it is the first
UpstreamSide == IF HasUpstream THEN Upstream ELSE Downstream

RuleLastEnd == IF HasUpstream THEN Upstream.columns.end ELSE 0

RuleMidpoint ==
    RuleLastEnd + 1
    + (((Downstream.columns.start - 1) - (RuleLastEnd + 1)) \div 2)

\* reference, sign and prefix of the strand/role table
RuleReference(rec) ==
    IF rec.columns.strand = S("+") THEN rec.columns.start ELSE rec.columns.end

RulePreSign(rec) == IF rec.columns.strand = S("+") THEN 1 ELSE -1

RulePrePrefix(rec) ==
    IF (rec.columns.strand = S("+")) <=> HasUpstream
    THEN S("_down-") ELSE S("_up-")

RulePostPrefix(rec) ==
    IF rec.columns.strand = S("+") THEN S("_up-") ELSE S("_down-")

\* obj is a copy of rec with this locus_tag and this offset
SyntheticCopy(obj, rec, prefix, offset) ==
    /\ obj.columns = rec.columns
    /\ \A a \in 1..Len(rec.attributes) :
           DictGet(Attributes(obj, dicts), rec.attributes[a][1])
               = rec.attributes[a][2]
    /\ DictGet(Attributes(obj, dicts), LOCUS_TAG)
           = prefix \o DictGet(rec.attributes, NAME)
    /\ DictGet(Attributes(obj, dicts), OFFSET) = offset

\* C16: gap split rule.  The gap-fill step for an indexable feature C after
\* the upstream feature L (last_end = 0 and C itself on the upstream side
\* when C is the first) produces exactly one synthetic record for each
\* coordinate of last_end+1 .. this_start-1 and none outside; up to
\* gap_midpoint = last_end+1+floor(gap_span/2) the record is a copy of the
\* upstream-side record, after it a copy of C, with locus_tag = prefix + Name
\* and offset = (i - reference) * sign taken from the strand/role table.
C16_GapSplit ==
    GapStep =>
        /\ DOMAIN gap_table = (RuleLastEnd + 1)..(Downstream.columns.start - 1)
        /\ \A i \in DOMAIN gap_table :
               /\ Len(gap_table[i]) = 1
               /\ IF i <= RuleMidpoint
                  THEN SyntheticCopy(gap_table[i][1], UpstreamSide,
                                     RulePrePrefix(UpstreamSide),
                                     (i - RuleReference(UpstreamSide))
                                         * RulePreSign(UpstreamSide))
                  ELSE SyntheticCopy(gap_table[i][1], Downstream,
                                     RulePostPrefix(Downstream),
                                     (i - RuleReference(Downstream))
                                         * (-RulePreSign(Downstream)))

\* the gap before a first feature on the '-' strand, with coordinates on
\* both sides of the midpoint
C16_Witness ==
    /\ GapStep /\ ~HasUpstream
    /\ Downstream.columns.strand = S("-")
    /\ \E i, j \in DOMAIN gap_table : i <= RuleMidpoint /\ j > RuleMidpoint
\* C17: never overwrites.  In the returned table the tuple under every
\* coordinate of start..end of every indexable feature holds a body record
\* of that feature, overlapping and nested features included: no record
\* stored under a coordinate was removed or replaced by a later step.
C17_NeverOverwrites ==
    Returned =>
        \A k \in IndexableLines :
            \A i \in stream[k].columns.start..stream[k].columns.end :
                BodyRecords(k, i) # {}
\* the records stored in the returned table
StoredRecords ==
    UNION {{TableGet(lookup_table, trailing, i)[r] :
                r \in 1..Len(TableGet(lookup_table, trailing, i))} :
           i \in HeldKeys}

\* C18: no mutation of originals.  When the table is returned every record
\* of the input stream has the attribute mapping it had before the build
\* (no added or changed 'offset' or 'locus_tag'), and no record stored in
\* the table shares its attribute mapping with a record of the stream (and
\* so with no record of another coordinate either).
C18_NoMutation ==
    Returned =>
        /\ \A k \in 1..Len(stream) : dicts[k] = stream[k].attributes
        /\ \A rec \in StoredRecords : rec.dict_id = 0
----------------------------------------------------------------------------
(* Further properties of the operations of a GffFile, checked under Spec *)

\* the number of records the generator g has yielded: one for each data line
\* up to its cursor, less the line it stands on before parsing it or has
\* failed on
Pulled(g) ==
    Cardinality({j \in 1..g.cursor : IsData(file[j])})
    - (IF g.status \in {"metadata", "raised"} THEN 1 ELSE 0)

\* the operation of this step has received records of source lines that it
\* has pulled itself, in file order from the first of them
FreshRecords ==
    /\ Len(delivered') <= Pulled(file_parser') - Pulled(file_parser)
    /\ delivered' = SubSeq(FileRecords.items, Pulled(file_parser) + 1,
                           Pulled(file_parser) + Len(delivered'))

\* what a consumer named name receives from the tuple items
FromTuple(name, items) ==
    IF name = "first_line" /\ items # <<>> THEN <<items[1]>> ELSE items

\* C19 as stated: single-pass record stream.  Whatever operations are run on
\* a GffFile obtained from from_file, in whatever order, each one receives
\* only records of source lines that no earlier operation has pulled, and
\* none once the source is exhausted.
C19_AsStated ==
    [][pc = "open" => FreshRecords]_vars

\* C19 (amended): the record stream is single-pass as long as it is the
\* generator of from_file.  A to_csv() that pulls it without a parse error
\* replaces it by the tuple of the records it has pulled, and from then on
\* every operation on the GffFile receives that tuple's records again.
C19_SinglePassUntilCsv ==
    [][pc = "open" =>
        /\ lines.kind = "generator" => FreshRecords
        /\ (lines.kind = "generator" /\ op' = "to_csv"
                /\ file_parser'.status = "finished") =>
               lines' = [kind |-> "tuple", items |-> delivered']
        /\ lines.kind = "tuple" =>
               /\ delivered' = FromTuple(op', lines.items)
               /\ lines' = lines]_vars

\* an operation after to_csv() has received records from the exhausted stream
C19_Witness ==
    /\ pc = "open" /\ op \in {"as_dict", "write"}
    /\ lines.kind = "tuple"
    /\ file_parser.status = "finished"
    /\ delivered # <<>>
\* GffColumns(*data[:8]) raises for this data line
Malformed(line) ==
    /\ IsData(line)
    /\ \/ ColumnsTypeError(First8(split(strip(line), TAB)))
       \/ ColumnsValueError(First8(split(strip(line), TAB)))

\* the first malformed data line of the file, 0 when there is none
FirstMalformed ==
    IF \E j \in 1..Len(file) : Malformed(file[j])
    THEN CHOOSE j \in 1..Len(file) :
             Malformed(file[j]) /\ \A h \in 1..(j - 1) : ~Malformed(file[h])
    ELSE 0

\* the records of the data lines among the first j lines, in file order
RECURSIVE RecordsOf(_, _)
RecordsOf(f, j) ==
    IF j = 0 THEN <<>>
    ELSE RecordsOf(f, j - 1)
         \o (IF IsData(f[j]) THEN <<GffLine(split(strip(f[j]), TAB))>> ELSE <<>>)

\* records 1..k-1: those of the data lines before the malformed one
RecordsBeforeMalformed == RecordsOf(file, FirstMalformed - 1)

\* the generator fails in this step
RaisedNow == file_parser.status # "raised" /\ file_parser'.status = "raised"

============================================================================
